---- MODULE Spec2Model ----
(***************************************************************************)
(* Model of the polling bot's poll state machine and its persistence.      *)
(*                                                                         *)
(* The repository carries two wirings of the poll service:                 *)
(*   - the in-memory one (service.InMemoryPollStorage behind               *)
(*     service.PollServiceImpl), specification SpecMem;                    *)
(*   - the Tarantool one (repository.TarantoolPollRepo behind the poll     *)
(*     service that main.go builds with NewPollService(repo)),             *)
(*     specification Spec.                                                 *)
(* Every inbound chat event is handled in a goroutine of its own           *)
(* (Bot.Start), so the service operations of different tasks interleave    *)
(* at every store call.                                                    *)
(***************************************************************************)
EXTENDS Integers, Sequences, FiniteSets, TLC

VARIABLES
    task,     \* per handler goroutine: the operation it runs and its locals
    polls,    \* InMemoryPollStorage.polls : id -> Poll (NoPoll when absent)
    heap,     \* the Go maps allocated for Poll.Options, by reference
    clock,    \* time.Now().UnixNano() as read by the in-memory idGenerator
    fatal,    \* the Go runtime aborted the process (concurrent map writes)
    space,    \* the Tarantool space : id -> tuple (NoTuple when absent)
    nuuid,    \* number of ids handed out by the Tarantool service's generator
    call      \* a function called on its own: its arguments and what it did

vars == <<task, polls, heap, clock, fatal, space, nuuid, call>>

memVars == <<polls, heap, clock, fatal>>

(***************************************************************************)
(* Bounds and input sets                                                   *)
(***************************************************************************)
MaxTasks == 3          \* handler goroutines per behaviour
MaxPolls == 2          \* distinct poll ids the id generators can produce
MaxFaultyCalls == 2    \* handler goroutines run against a failing connection

Tasks    == 1..MaxTasks
PollIds  == 1..MaxPolls
Users    == {"u1", "u2"}
Labels   == {"A", "B"}
Choices  == Labels \cup {"X"}                 \* "X" is never an option label
OptionLists == {<<"A", "B">>, <<>>, <<"A", "A">>, <<"L">>}  \* the options argument of create
Questions   == {"Q", "LongQ"}                 \* the question argument of create

MaxQuestionLen == 255  \* the longest question the service's tests accept
MaxOptionLen   == 100  \* the longest option the service's tests accept

\* len(question), len(option): "LongQ" and "L" are one byte over the limits
QuestionLen(q) == IF q = "LongQ" THEN MaxQuestionLen + 1 ELSE 1
OptionLen(l)   == IF l = "L" THEN MaxOptionLen + 1 ELSE 1

\* the (question, options) arguments tried: at most one of them is off
CreateInputs ==
    {in \in [q : Questions, options : OptionLists] :
        in.q = "Q" \/ in.options = <<"A", "B">>}

\* the arguments the handlers usually pass: a plain question with two
\* distinct options, or with none
UsualInputs == {in \in CreateInputs : in.q = "Q" /\ in.options \in {<<"A", "B">>, <<>>}}

NoCall  == [fn |-> "none"]    \* no function has been called on its own
BadID   == 0           \* a poll id that does not have the id shape
NoPoll  == [ID |-> 0]
NoTuple == <<>>

Range(s) == {s[i] : i \in 1..Len(s)}

(***************************************************************************)
(* Handler goroutines                                                      *)
(***************************************************************************)
Idle == [op |-> "none", pc |-> "idle", user |-> "", id |-> 0, choice |-> "",
         poll |-> NoPoll, res |-> "", i |-> 0, r |-> 0, conflict |-> FALSE,
         prior |-> FALSE, afterEnd |-> FALSE,
         q |-> "", opts |-> <<>>, out |-> {}, last |-> ""]

\* Bot.Start hands events to goroutines in arrival order: task t is started
\* only after tasks 1..t-1 were (the tasks are interchangeable).
CanStart(t) ==
    /\ ~fatal
    /\ task[t].pc = "idle"
    /\ \A s \in Tasks : s < t => task[s].pc # "idle"

Running(t, pc) == ~fatal /\ task[t].pc = pc

Done(t, op, res) == task[t].pc = "done" /\ task[t].op = op /\ task[t].res = res

\* what the caller of an operation can observe to have happened before its call
PriorVote(u, id) == \E s \in Tasks : Done(s, "vote", "ok") /\ task[s].user = u /\ task[s].id = id
PriorEnd(id)     == \E s \in Tasks : Done(s, "end", "ok") /\ task[s].id = id

Call(t, op, u, id, c) ==
    [Idle EXCEPT !.op = op, !.user = u, !.id = id, !.choice = c,
                 !.prior = (op = "vote" /\ PriorVote(u, id)),
                 !.afterEnd = (op \in {"vote", "end"} /\ PriorEnd(id))]

\* the handler returns: its result stays, its locals are gone (and of a call
\* refused before it looked at a poll, the caller and the choice as well)
Return(rec, res) ==
    [rec EXCEPT !.pc = "done", !.res = res, !.poll = NoPoll, !.r = 0, !.conflict = FALSE,
                !.choice = IF res = "ok" THEN @ ELSE "",
                !.user = IF res \in {"validation", "notfound"} THEN "" ELSE @]

(***************************************************************************)
(* In-memory wiring: InMemoryPollStorage                                   *)
(***************************************************************************)
\* InMemoryPollStorage.SavePoll: s.polls[poll.ID] = poll, under the write lock
MemSavePoll(ps, poll) == [ps EXCEPT ![poll.ID] = poll]

\* InMemoryPollStorage.GetPoll: the struct value stored under id, under the
\* read lock; the Options field of the copy is the same Go map
MemExists(ps, id) == id \in DOMAIN ps /\ ps[id] # NoPoll
MemGetPoll(ps, id) == IF MemExists(ps, id) THEN ps[id] ELSE NoPoll

\* InMemoryPollStorage.DeletePoll: delete(s.polls, id); always returns nil
MemDeletePoll(ps, id) == IF id \in DOMAIN ps THEN [ps EXCEPT ![id] = NoPoll] ELSE ps

\* a Go map read m[k] (the zero value when k is absent) and write m[k] = v
MapGet(m, k) == IF k \in DOMAIN m THEN m[k] ELSE 0
MapSet(m, k, v) == [x \in DOMAIN m \cup {k} |-> IF x = k THEN v ELSE m[x]]

\* the loop of CreatePoll, were it to start every count at 1
ZeroCounts_One(options) == [l \in Range(options) |-> 1]

\* the loop of CreatePoll that fills the freshly made Options map
ZeroCounts(options) == [l \in Range(options) |-> 0]

(***************************************************************************)
(* In-memory wiring: PollServiceImpl                                       *)
(***************************************************************************)
\* the clock of idGenerator moves on between two calls, or does not
Tick ==
    /\ ~fatal
    /\ clock < MaxPolls
    /\ clock' = clock + 1
    /\ UNCHANGED <<task, polls, heap, fatal, space, nuuid, call>>

\* CreatePoll, its (question, options) arguments drawn from inputs
MemCreatePollWith(t, inputs) ==
    /\ CanStart(t)
    /\ \E u \in Users, in \in inputs :
         LET options  == in.options
             question == in.q
             rec == [Call(t, "create", u, clock, "") EXCEPT !.q = question, !.opts = options]
         IN
         IF Len(options) < 1
         THEN /\ task' = [task EXCEPT ![t] = Return([rec EXCEPT !.id = 0], "validation")]
              /\ UNCHANGED <<polls, heap>>
         ELSE LET ref  == Len(heap) + 1
                  poll == [ID |-> clock, Question |-> question, Options |-> ref,
                           Creator |-> u, Closed |-> FALSE]
              IN /\ heap' = Append(heap, ZeroCounts(options))
                 /\ polls' = MemSavePoll(polls, poll)
                 /\ task' = [task EXCEPT ![t] = Return(rec, "ok")]
    /\ UNCHANGED <<clock, fatal, space, nuuid, call>>

MemCreatePoll(t) == MemCreatePollWith(t, UsualInputs)

\* CreatePoll called with any of the arguments, the odd ones included
MemCreatePollAny(t) == MemCreatePollWith(t, CreateInputs)

\* AddVote without the lookup of the choice in poll.Options
MemAddVoteGet_NoChoiceCheck(t) ==
    /\ CanStart(t)
    /\ \E u \in Users, id \in PollIds \cup {BadID}, c \in Choices :
         LET rec  == Call(t, "vote", u, id, c)
             poll == MemGetPoll(polls, id)
         IN task' = [task EXCEPT ![t] =
              IF poll = NoPoll THEN Return(rec, "notfound")
              ELSE IF poll.Closed THEN Return(rec, "closed")
              ELSE [rec EXCEPT !.pc = "inc", !.poll = poll]]
    /\ UNCHANGED <<polls, heap, clock, fatal, space, nuuid, call>>

\* AddVote up to and including the two checks made on the value GetPoll returned
MemAddVoteGet(t) ==
    /\ CanStart(t)
    /\ \E u \in Users, id \in PollIds \cup {BadID}, c \in Choices :
         LET rec  == Call(t, "vote", u, id, c)
             poll == MemGetPoll(polls, id)
         IN task' = [task EXCEPT ![t] =
              IF poll = NoPoll THEN Return(rec, "notfound")
              ELSE IF poll.Closed THEN Return(rec, "closed")
              ELSE IF c \notin DOMAIN heap[poll.Options]
                   THEN Return(rec, "invalid")
              ELSE [rec EXCEPT !.pc = "inc", !.poll = poll]]
    /\ UNCHANGED <<polls, heap, clock, fatal, space, nuuid, call>>

\* poll.Options[choice]++ : the load of the counter from the shared map ...
MemAddVoteIncRead(t) ==
    /\ Running(t, "inc")
    /\ task' = [task EXCEPT ![t].pc = "incw",
                            ![t].r = MapGet(heap[task[t].poll.Options], task[t].choice)]
    /\ UNCHANGED <<polls, heap, clock, fatal, space, nuuid, call>>

\* another goroutine is inside its own ++ on the same map
RacingWriter(t) ==
    \E s \in Tasks \ {t} : /\ task[s].pc = "incw"
                           /\ task[s].poll.Options = task[t].poll.Options

\* ... and the store of the incremented value, with no lock held; when two
\* writers overlap the runtime may also abort with "concurrent map writes"
MemAddVoteIncWrite(t) ==
    /\ Running(t, "incw")
    /\ \/ /\ heap' = [heap EXCEPT ![task[t].poll.Options] =
                                   MapSet(@, task[t].choice, task[t].r + 1)]
          /\ task' = [task EXCEPT ![t].pc = "save"]
          /\ UNCHANGED fatal
       \/ /\ RacingWriter(t)
          /\ fatal' = TRUE
          /\ UNCHANGED <<task, heap>>
    /\ UNCHANGED <<polls, clock, space, nuuid, call>>

MemAddVoteSave(t) ==
    /\ Running(t, "save")
    /\ task[t].op = "vote"
    /\ polls' = MemSavePoll(polls, task[t].poll)
    /\ task' = [task EXCEPT ![t] = Return(task[t], "ok")]
    /\ UNCHANGED <<heap, clock, fatal, space, nuuid, call>>

\* the report lines of GetResults, were options without a vote left out
Report_SkipZero(m) == {<<l, m[l]>> : l \in {x \in DOMAIN m : m[x] > 0}}

\* the report lines of GetResults: "- option: count" for each pair that
\* ranging over the Options map yields
Report(m) == {<<l, m[l]>> : l \in DOMAIN m}

\* GetResults: the report holds one line per key of the Options map, with
\* the count read from the map; the map is read with no lock held, so next
\* to a goroutine inside its ++ the runtime may abort instead
MemGetResults(t) ==
    /\ CanStart(t)
    /\ \E id \in PollIds :            \* the userID argument is not used
         LET rec  == Call(t, "results", "", id, "")
             poll == MemGetPoll(polls, id)
         IN \/ /\ task' = [task EXCEPT ![t] =
                     IF poll = NoPoll THEN Return(rec, "notfound")
                     ELSE Return([rec EXCEPT !.out = Report(heap[poll.Options])], "ok")]
               /\ UNCHANGED fatal
            \/ /\ poll # NoPoll
               /\ \E s \in Tasks : task[s].pc = "incw" /\ task[s].poll.Options = poll.Options
               /\ fatal' = TRUE
               /\ UNCHANGED task
    /\ UNCHANGED <<polls, heap, clock, space, nuuid, call>>

\* EndPoll without the comparison of the caller with poll.Creator
MemEndPollGet_NoCreatorCheck(t) ==
    /\ CanStart(t)
    /\ \E u \in Users, id \in PollIds :
         LET rec  == Call(t, "end", u, id, "")
             poll == MemGetPoll(polls, id)
         IN task' = [task EXCEPT ![t] =
              IF poll = NoPoll THEN Return(rec, "notfound")
              ELSE [rec EXCEPT !.pc = "save", !.poll = [poll EXCEPT !.Closed = TRUE]]]
    /\ UNCHANGED <<polls, heap, clock, fatal, space, nuuid, call>>

\* EndPoll, were it to refuse a poll that is closed already
MemEndPollGet_RejectClosed(t) ==
    /\ CanStart(t)
    /\ \E u \in Users, id \in PollIds :
         LET rec  == Call(t, "end", u, id, "")
             poll == MemGetPoll(polls, id)
         IN task' = [task EXCEPT ![t] =
              IF poll = NoPoll THEN Return(rec, "notfound")
              ELSE IF poll.Creator # u THEN Return(rec, "unauthorized")
              ELSE IF poll.Closed THEN Return(rec, "closed")
              ELSE [rec EXCEPT !.pc = "save", !.poll = [poll EXCEPT !.Closed = TRUE]]]
    /\ UNCHANGED <<polls, heap, clock, fatal, space, nuuid, call>>

MemEndPollGet(t) ==
    /\ CanStart(t)
    /\ \E u \in Users, id \in PollIds :
         LET rec  == Call(t, "end", u, id, "")
             poll == MemGetPoll(polls, id)
         IN task' = [task EXCEPT ![t] =
              IF poll = NoPoll THEN Return(rec, "notfound")
              ELSE IF poll.Creator # u THEN Return(rec, "unauthorized")
              ELSE [rec EXCEPT !.pc = "save", !.poll = [poll EXCEPT !.Closed = TRUE]]]
    /\ UNCHANGED <<polls, heap, clock, fatal, space, nuuid, call>>

MemEndPollSave(t) ==
    /\ Running(t, "save")
    /\ task[t].op = "end"
    /\ polls' = MemSavePoll(polls, task[t].poll)
    /\ task' = [task EXCEPT ![t] = Return(task[t], "ok")]
    /\ UNCHANGED <<heap, clock, fatal, space, nuuid, call>>

MemDeletePollGet(t) ==
    /\ CanStart(t)
    /\ \E u \in Users, id \in PollIds :
         LET rec  == Call(t, "delete", u, id, "")
             poll == MemGetPoll(polls, id)
         IN task' = [task EXCEPT ![t] =
              IF poll = NoPoll THEN Return(rec, "notfound")
              ELSE IF poll.Creator # u THEN Return(rec, "unauthorized")
              ELSE [rec EXCEPT !.pc = "del", !.poll = poll]]
    /\ UNCHANGED <<polls, heap, clock, fatal, space, nuuid, call>>

MemDeletePollDel(t) ==
    /\ Running(t, "del")
    /\ polls' = MemDeletePoll(polls, task[t].id)
    /\ task' = [task EXCEPT ![t] = Return(task[t], "ok")]
    /\ UNCHANGED <<heap, clock, fatal, space, nuuid, call>>

(***************************************************************************)
(* Tarantool wiring: the space and the requests of TarantoolPollRepo        *)
(***************************************************************************)
MaxAttempts == 5       \* the loop bound of AddVoteAtomic

\* the tuple SavePoll sends: id, creator, question, voters, options, is_closed
PollTuple(poll) ==
    <<poll.ID, poll.Creator, poll.Question, poll.Voters, poll.Options, poll.Closed>>

\* parsePollTuple: Go indices 0..5 of the tuple; fewer than 6 fields is an error
parsePollTuple(tuple) ==
    IF Len(tuple) < 6 THEN NoPoll
    ELSE [ID |-> tuple[1], Creator |-> tuple[2], Question |-> tuple[3],
          Voters |-> tuple[4], Options |-> tuple[5], Closed |-> tuple[6]]

\* one {"=", fieldNo, value} operation of conn.Update. The connector sends
\* field numbers as they are and the server counts them from 0: an existing
\* field is overwritten, the number just past the last field appends one.
ApplyAssign(tuple, fieldNo, value) ==
    IF fieldNo < Len(tuple) THEN [tuple EXCEPT ![fieldNo + 1] = value]
    ELSE IF fieldNo = Len(tuple) THEN Append(tuple, value)
    ELSE tuple

RECURSIVE ApplyOps(_, _)
ApplyOps(tuple, ops) ==
    IF ops = <<>> THEN tuple
    ELSE ApplyOps(ApplyAssign(tuple, ops[1][1], ops[1][2]), Tail(ops))

\* conn.Replace: insert or overwrite the tuple with this primary key
SpaceReplace(sp, tuple) == [sp EXCEPT ![tuple[1]] = tuple]

\* conn.Update: no tuple under the key is not an error, nothing is written
SpaceUpdate(sp, id, ops) ==
    IF id \in DOMAIN sp /\ sp[id] # NoTuple
    THEN [sp EXCEPT ![id] = ApplyOps(sp[id], ops)]
    ELSE sp

\* conn.Delete: no tuple under the key is not an error
SpaceDelete(sp, id) == IF id \in DOMAIN sp THEN [sp EXCEPT ![id] = NoTuple] ELSE sp

\* TarantoolPollRepo.GetPoll: select by primary key, then parsePollTuple
ExtGetPoll(sp, id) ==
    IF id \in DOMAIN sp /\ sp[id] # NoTuple THEN parsePollTuple(sp[id]) ELSE NoPoll

\* the operations AddVoteAtomic sends: voters and options of the snapshot
VoteOps(poll) == << <<3, poll.Voters>>, <<4, poll.Options>> >>

\* the operation ClosePoll sends
CloseOps == << <<6, TRUE>> >>

\* a write committed on tuple id: the requests of other tasks that are in
\* their AddVoteAtomic loop on the same key may see a transaction conflict
FlagWriters(tk, t, id) ==
    [s \in Tasks |->
        IF s # t /\ tk[s].pc = "update" /\ tk[s].id = id
        THEN [tk[s] EXCEPT !.conflict = TRUE] ELSE tk[s]]

(***************************************************************************)
(* Tarantool wiring: the poll service                                      *)
(***************************************************************************)
IDShapeOK(id) == id \in PollIds

HasDuplicates(options) ==
    \E i, j \in 1..Len(options) : i # j /\ options[i] = options[j]

ExtCreatePoll(t) ==
    /\ CanStart(t)
    /\ \E u \in Users, in \in UsualInputs :
         LET options  == in.options
             question == in.q
             rec == [Call(t, "create", u, nuuid + 1, "") EXCEPT !.q = question, !.opts = options]
         IN
         IF \/ Len(options) < 1
            \/ QuestionLen(question) > MaxQuestionLen
            \/ \E k \in 1..Len(options) : OptionLen(options[k]) > MaxOptionLen
            \/ HasDuplicates(options)
         THEN /\ task' = [task EXCEPT ![t] = Return([rec EXCEPT !.id = 0], "validation")]
              /\ UNCHANGED <<space, nuuid>>
         ELSE LET poll == [ID |-> nuuid + 1, Creator |-> u, Question |-> question,
                           Voters |-> {}, Options |-> ZeroCounts(options),
                           Closed |-> FALSE]
              IN /\ nuuid < MaxPolls
                 /\ nuuid' = nuuid + 1
                 /\ space' = SpaceReplace(space, PollTuple(poll))
                 /\ task' = [task EXCEPT ![t] = Return(rec, "ok")]
    /\ UNCHANGED <<memVars, call>>

ExtAddVoteGet(t) ==
    /\ CanStart(t)
    /\ \E u \in Users, id \in PollIds \cup {BadID}, c \in Choices :
         LET rec  == Call(t, "vote", u, id, c)
             poll == ExtGetPoll(space, id)
         IN task' = [task EXCEPT ![t] =
              IF ~IDShapeOK(id) THEN Return(rec, "validation")
              ELSE IF poll = NoPoll THEN Return(rec, "notfound")
              ELSE IF poll.Closed THEN Return(rec, "closed")
              ELSE IF u \in poll.Voters THEN Return(rec, "duplicate")
              ELSE IF c \notin DOMAIN poll.Options
                   THEN Return(rec, "invalid")
              ELSE [rec EXCEPT !.pc = "update",
                               !.poll = [poll EXCEPT !.Voters = @ \cup {u},
                                                     !.Options[c] = @ + 1]]]
    /\ UNCHANGED <<space, nuuid>>
    /\ UNCHANGED <<memVars, call>>

\* AddVoteAtomic without its retry: a transaction conflict is returned to
\* the caller like any other error of the update request
AddVoteAtomicStep_NoRetry(t, conflicted) ==
    IF conflicted
    THEN /\ task' = [task EXCEPT ![t] =
                Return([task[t] EXCEPT !.i = @ + 1, !.conflict = FALSE, !.last = "conflict"], "storage")]
         /\ UNCHANGED space
    ELSE /\ space' = SpaceUpdate(space, task[t].id, VoteOps(task[t].poll))
         /\ task' = FlagWriters([task EXCEPT ![t] = Return([task[t] EXCEPT !.last = "ok"], "ok")],
                                t, task[t].id)

\* AddVoteAtomic, one pass of its loop: the update request and what follows it
AddVoteAtomicStep(t, conflicted) ==
    IF conflicted
    THEN /\ task' = [task EXCEPT ![t] =
                IF task[t].i + 1 >= MaxAttempts
                THEN Return([task[t] EXCEPT !.i = @ + 1, !.conflict = FALSE, !.last = "conflict"], "storage")
                ELSE [task[t] EXCEPT !.i = @ + 1, !.conflict = FALSE, !.last = "conflict"]]
         /\ UNCHANGED space
    ELSE /\ space' = SpaceUpdate(space, task[t].id, VoteOps(task[t].poll))
         /\ task' = FlagWriters([task EXCEPT ![t] = Return([task[t] EXCEPT !.last = "ok"], "ok")],
                                t, task[t].id)

\* AddVoteAtomic, were it to retry after every error of the update request
AddVoteAtomicFail_Retry(t) ==
    /\ task' = [task EXCEPT ![t] =
            IF task[t].i + 1 >= MaxAttempts
            THEN Return([task[t] EXCEPT !.i = @ + 1, !.last = "error"], "storage")
            ELSE [task[t] EXCEPT !.i = @ + 1, !.last = "error"]]
    /\ UNCHANGED space

\* AddVoteAtomic when the update request fails with an error that is not a
\* transaction conflict: the error is wrapped and returned, the loop is left
AddVoteAtomicFail(t) ==
    /\ task' = [task EXCEPT ![t] = Return([task[t] EXCEPT !.last = "error"], "storage")]
    /\ UNCHANGED space

ExtAddVoteUpdate(t) ==
    /\ Running(t, "update")
    /\ \E conflicted \in {FALSE, task[t].conflict} : AddVoteAtomicStep(t, conflicted)
    /\ UNCHANGED nuuid
    /\ UNCHANGED <<memVars, call>>

\* the pass against such a connection, were the loop to go round once more
\* after the fifth conflict
FaultyAddVoteUpdate_SixthAttempt(t) ==
    /\ Running(t, "update")
    /\ \/ \E conflicted \in BOOLEAN :
            IF conflicted /\ task[t].i + 1 = MaxAttempts
            THEN /\ task' = [task EXCEPT ![t].i = @ + 1, ![t].last = "conflict"]
                 /\ UNCHANGED space
            ELSE AddVoteAtomicStep(t, conflicted)
       \/ AddVoteAtomicFail(t)
    /\ UNCHANGED nuuid
    /\ UNCHANGED <<memVars, call>>

\* the same pass against a connection that answers an update as it likes:
\* done, transaction conflict, or another error (timeout, closed connection)
FaultyAddVoteUpdate(t) ==
    /\ Running(t, "update")
    /\ \/ \E conflicted \in BOOLEAN : AddVoteAtomicStep(t, conflicted)
       \/ AddVoteAtomicFail(t)
    /\ UNCHANGED nuuid
    /\ UNCHANGED <<memVars, call>>

ExtGetResults(t) ==
    /\ CanStart(t)
    /\ \E id \in PollIds :            \* the userID argument is not used
         LET rec  == Call(t, "results", "", id, "")
             poll == ExtGetPoll(space, id)
         IN task' = [task EXCEPT ![t] =
              IF poll = NoPoll THEN Return(rec, "notfound")
              ELSE Return(rec, "ok")]
    /\ UNCHANGED <<space, nuuid>>
    /\ UNCHANGED <<memVars, call>>

ExtEndPollGet(t) ==
    /\ CanStart(t)
    /\ \E u \in Users, id \in PollIds :
         LET rec  == Call(t, "end", u, id, "")
             poll == ExtGetPoll(space, id)
         IN task' = [task EXCEPT ![t] =
              IF poll = NoPoll THEN Return(rec, "notfound")
              ELSE IF poll.Creator # u THEN Return(rec, "unauthorized")
              ELSE [rec EXCEPT !.pc = "close", !.poll = poll]]
    /\ UNCHANGED <<space, nuuid>>
    /\ UNCHANGED <<memVars, call>>

\* TarantoolPollRepo.ClosePoll
ExtEndPollClose(t) ==
    /\ Running(t, "close")
    /\ space' = SpaceUpdate(space, task[t].id, CloseOps)
    /\ task' = FlagWriters([task EXCEPT ![t] = Return(task[t], "ok")], t, task[t].id)
    /\ UNCHANGED nuuid
    /\ UNCHANGED <<memVars, call>>

ExtDeletePollGet(t) ==
    /\ CanStart(t)
    /\ \E u \in Users, id \in PollIds :
         LET rec  == Call(t, "delete", u, id, "")
             poll == ExtGetPoll(space, id)
         IN task' = [task EXCEPT ![t] =
              IF poll = NoPoll THEN Return(rec, "notfound")
              ELSE IF poll.Creator # u THEN Return(rec, "unauthorized")
              ELSE [rec EXCEPT !.pc = "del", !.poll = poll]]
    /\ UNCHANGED <<space, nuuid>>
    /\ UNCHANGED <<memVars, call>>

\* TarantoolPollRepo.DeletePoll
ExtDeletePollDel(t) ==
    /\ Running(t, "del")
    /\ space' = SpaceDelete(space, task[t].id)
    /\ task' = FlagWriters([task EXCEPT ![t] = Return(task[t], "ok")], t, task[t].id)
    /\ UNCHANGED nuuid
    /\ UNCHANGED <<memVars, call>>

(***************************************************************************)
(* Specifications                                                          *)
(***************************************************************************)
Init ==
    /\ task = [t \in Tasks |-> Idle]
    /\ polls = [id \in PollIds |-> NoPoll]
    /\ heap = <<>>
    /\ clock = 1
    /\ fatal = FALSE
    /\ space = [id \in PollIds |-> NoTuple]
    /\ nuuid = 0
    /\ call = NoCall

NextMem ==
    \/ Tick
    \/ \E t \in Tasks : MemCreatePoll(t)
    \/ \E t \in Tasks : MemAddVoteGet(t)
    \/ \E t \in Tasks : MemAddVoteIncRead(t)
    \/ \E t \in Tasks : MemAddVoteIncWrite(t)
    \/ \E t \in Tasks : MemAddVoteSave(t)
    \/ \E t \in Tasks : MemGetResults(t)
    \/ \E t \in Tasks : MemEndPollGet(t)
    \/ \E t \in Tasks : MemEndPollSave(t)
    \/ \E t \in Tasks : MemDeletePollGet(t)
    \/ \E t \in Tasks : MemDeletePollDel(t)

SpecMem == Init /\ [][NextMem]_vars

\* PollServiceImpl.CreatePoll alone, called with every kind of argument
NextMemCreate ==
    \/ Tick
    \/ \E t \in Tasks : MemCreatePollAny(t)

SpecMemCreate == Init /\ [][NextMemCreate]_vars

Next ==
    \/ \E t \in Tasks : ExtCreatePoll(t)
    \/ \E t \in Tasks : ExtAddVoteGet(t)
    \/ \E t \in Tasks : ExtAddVoteUpdate(t)
    \/ \E t \in Tasks : ExtGetResults(t)
    \/ \E t \in Tasks : ExtEndPollGet(t)
    \/ \E t \in Tasks : ExtEndPollClose(t)
    \/ \E t \in Tasks : ExtDeletePollGet(t)
    \/ \E t \in Tasks : ExtDeletePollDel(t)

Spec == Init /\ [][Next]_vars

\* the Go scheduler runs every runnable goroutine: a handler that is inside
\* a store call gets to finish it
ExtContinue(t) == ExtAddVoteUpdate(t) \/ ExtEndPollClose(t) \/ ExtDeletePollDel(t)

FairSpec == Spec /\ \A t \in Tasks : WF_vars(ExtContinue(t))

\* TarantoolPollRepo behind the service, on a connection that may report a
\* conflict or fail on any update request of AddVoteAtomic
FaultyTasks == {t \in Tasks : t <= MaxFaultyCalls}

NextFaulty ==
    \/ \E t \in FaultyTasks : ExtCreatePoll(t)
    \/ \E t \in FaultyTasks : ExtAddVoteGet(t)
    \/ \E t \in FaultyTasks : FaultyAddVoteUpdate(t)
    \/ \E t \in FaultyTasks : ExtGetResults(t)
    \/ \E t \in FaultyTasks : ExtEndPollGet(t)
    \/ \E t \in FaultyTasks : ExtEndPollClose(t)
    \/ \E t \in FaultyTasks : ExtDeletePollGet(t)
    \/ \E t \in FaultyTasks : ExtDeletePollDel(t)

SpecFaulty == Init /\ [][NextFaulty]_vars

FaultyContinue(t) == FaultyAddVoteUpdate(t) \/ ExtEndPollClose(t) \/ ExtDeletePollDel(t)

FairFaulty == SpecFaulty /\ \A t \in FaultyTasks : WF_vars(FaultyContinue(t))

(***************************************************************************)
(* TarantoolPollRepo, its methods called one at a time with a context      *)
(***************************************************************************)
\* ctx.Err() of the context passed in: nil while it is live, else
\* context.Canceled or context.DeadlineExceeded
Contexts == {"live", "canceled", "deadline exceeded"}
CtxErr(ctx) == IF ctx = "live" THEN "nil" ELSE ctx

\* the models.Poll values handed to SavePoll and AddVoteAtomic
RepoPolls ==
    {[ID |-> id, Creator |-> "u1", Question |-> "Q", Voters |-> p[1],
      Options |-> p[2], Closed |-> c] :
        id \in PollIds, c \in BOOLEAN,
        p \in {<<{}, [l \in Labels |-> 0]>>,
               <<{"u1"}, [l \in Labels |-> IF l = "A" THEN 1 ELSE 0]>>}}

\* the record of a repository call: sent counts the requests it put on the
\* connection, err is the error it returned, poll what GetPoll returned
RepoCall(fn, ctx, id, sent, err, poll) ==
    [fn |-> fn, ctx |-> ctx, id |-> id, sent |-> sent, err |-> err, poll |-> poll]

RepoSavePoll ==
    /\ \E ctx \in Contexts, poll \in RepoPolls :
         IF CtxErr(ctx) # "nil"
         THEN /\ call' = RepoCall("SavePoll", ctx, poll.ID, 0, CtxErr(ctx), NoPoll)
              /\ UNCHANGED space
         ELSE /\ space' = SpaceReplace(space, PollTuple(poll))
              /\ call' = RepoCall("SavePoll", ctx, poll.ID, 1, "nil", NoPoll)
    /\ UNCHANGED <<task, memVars, nuuid>>

\* with a single caller no update is answered with a transaction conflict:
\* the first pass of the loop returns
RepoAddVoteAtomic ==
    /\ \E ctx \in Contexts, poll \in RepoPolls :
         IF CtxErr(ctx) # "nil"
         THEN /\ call' = RepoCall("AddVoteAtomic", ctx, poll.ID, 0, CtxErr(ctx), NoPoll)
              /\ UNCHANGED space
         ELSE /\ space' = SpaceUpdate(space, poll.ID, VoteOps(poll))
              /\ call' = RepoCall("AddVoteAtomic", ctx, poll.ID, 1, "nil", NoPoll)
    /\ UNCHANGED <<task, memVars, nuuid>>

RepoGetPoll ==
    /\ \E ctx \in Contexts, id \in PollIds :
         IF CtxErr(ctx) # "nil"
         THEN call' = RepoCall("GetPoll", ctx, id, 0, CtxErr(ctx), NoPoll)
         ELSE LET poll == ExtGetPoll(space, id) IN
              call' = RepoCall("GetPoll", ctx, id, 1,
                               IF poll = NoPoll THEN "notfound" ELSE "nil", poll)
    /\ UNCHANGED <<task, memVars, space, nuuid>>

\* ClosePoll without the look at ctx.Err() on entry
RepoClosePoll_NoCtxCheck ==
    /\ \E ctx \in Contexts, id \in PollIds :
         /\ space' = SpaceUpdate(space, id, CloseOps)
         /\ call' = RepoCall("ClosePoll", ctx, id, 1, "nil", NoPoll)
    /\ UNCHANGED <<task, memVars, nuuid>>

RepoClosePoll ==
    /\ \E ctx \in Contexts, id \in PollIds :
         IF CtxErr(ctx) # "nil"
         THEN /\ call' = RepoCall("ClosePoll", ctx, id, 0, CtxErr(ctx), NoPoll)
              /\ UNCHANGED space
         ELSE /\ space' = SpaceUpdate(space, id, CloseOps)
              /\ call' = RepoCall("ClosePoll", ctx, id, 1, "nil", NoPoll)
    /\ UNCHANGED <<task, memVars, nuuid>>

RepoDeletePoll ==
    /\ \E ctx \in Contexts, id \in PollIds :
         IF CtxErr(ctx) # "nil"
         THEN /\ call' = RepoCall("DeletePoll", ctx, id, 0, CtxErr(ctx), NoPoll)
              /\ UNCHANGED space
         ELSE /\ space' = SpaceDelete(space, id)
              /\ call' = RepoCall("DeletePoll", ctx, id, 1, "nil", NoPoll)
    /\ UNCHANGED <<task, memVars, nuuid>>

NextRepo ==
    \/ RepoSavePoll
    \/ RepoAddVoteAtomic
    \/ RepoGetPoll
    \/ RepoClosePoll
    \/ RepoDeletePoll

SpecRepo == Init /\ [][NextRepo]_vars

(***************************************************************************)
(* Command text: the tokenizer and ParseCommand                            *)
(***************************************************************************)
MaxPieces == 4         \* pieces a command text is put together from

\* the literal ParseCommand compares the first token with, rune by rune
PollPrefix == <<"!", "p", "o", "l", "l">>

\* what the texts are made of: the prefix, an upper-case letter, a space, the
\* two quotes, the backslash and a letter that takes two bytes in UTF-8
Pieces == {PollPrefix, <<"E">>, <<" ">>, <<"\"">>, <<"'">>, <<"\\">>, <<"U+044F">>}

\* how a text starts: with anything, or as a command does
Starts == {<<>>, PollPrefix \o <<" ">>}

RECURSIVE Flatten(_)
Flatten(ps) == IF ps = <<>> THEN <<>> ELSE Head(ps) \o Flatten(Tail(ps))

\* the input strings, as sequences of runes
Inputs == {s \o Flatten(ps) : s \in Starts,
                               ps \in UNION {[1..n -> Pieces] : n \in 0..MaxPieces}}

\* bytes of the UTF-8 encoding of a rune
Width(r) == IF r = "U+044F" THEN 2 ELSE 1

\* `for i, r := range input` : i is the byte offset at which rune k starts
RECURSIVE ByteOffset(_, _)
ByteOffset(input, k) ==
    IF k <= 1 THEN 0 ELSE ByteOffset(input, k - 1) + Width(input[k - 1])

\* len(input), in bytes
ByteLen(input) == ByteOffset(input, Len(input) + 1)

IsQuote(r) == r \in {"\"", "'"}
IsSpace(r) == r = " "

\* the locals of parseCommandArgs before the loop; flushed records that the
\* append after the switch has run
TokInit == [args |-> <<>>, buf |-> <<>>, inQuotes |-> FALSE, quoteChar |-> "",
            escape |-> FALSE, flushed |-> FALSE]

\* the switch, were either quote to close a quoted token
TokSwitch_AnyQuoteCloses(st, r) ==
    IF r = "\\"
    THEN IF st.inQuotes THEN [st EXCEPT !.escape = TRUE]
         ELSE [st EXCEPT !.buf = Append(@, r)]
    ELSE IF IsQuote(r)
    THEN IF st.inQuotes
         THEN [st EXCEPT !.inQuotes = FALSE, !.args = Append(@, st.buf),
                         !.buf = <<>>]
         ELSE [st EXCEPT !.inQuotes = TRUE, !.quoteChar = r]
    ELSE IF IsSpace(r)
    THEN IF st.inQuotes THEN [st EXCEPT !.buf = Append(@, r)]
         ELSE IF Len(st.buf) > 0
              THEN [st EXCEPT !.args = Append(@, st.buf), !.buf = <<>>]
              ELSE st
    ELSE [st EXCEPT !.buf = Append(@, r)]

\* the switch of the loop body
TokSwitch(st, r) ==
    IF r = "\\"
    THEN IF st.inQuotes THEN [st EXCEPT !.escape = TRUE]
         ELSE [st EXCEPT !.buf = Append(@, r)]
    ELSE IF IsQuote(r)
    THEN IF st.inQuotes
         THEN IF r = st.quoteChar
              THEN [st EXCEPT !.inQuotes = FALSE, !.args = Append(@, st.buf),
                              !.buf = <<>>]
              ELSE [st EXCEPT !.buf = Append(@, r)]
         ELSE [st EXCEPT !.inQuotes = TRUE, !.quoteChar = r]
    ELSE IF IsSpace(r)
    THEN IF st.inQuotes THEN [st EXCEPT !.buf = Append(@, r)]
         ELSE IF Len(st.buf) > 0
              THEN [st EXCEPT !.args = Append(@, st.buf), !.buf = <<>>]
              ELSE st
    ELSE [st EXCEPT !.buf = Append(@, r)]

\* the loop body, were the rune after a backslash to go through the switch
\* like any other
TokRune_EscapeIgnored(st, r, i, n) ==
    LET s1 == TokSwitch([st EXCEPT !.escape = FALSE], r) IN
    IF i = n - 1 /\ Len(s1.buf) > 0
    THEN [s1 EXCEPT !.args = Append(@, s1.buf), !.flushed = TRUE]
    ELSE s1

\* one pass of the loop body for rune r at byte offset i of an input of n
\* bytes: an escaped rune is written and the pass ends (continue); otherwise
\* the switch, then the append of the buffer when i == len(input)-1
TokRune(st, r, i, n) ==
    IF st.escape
    THEN [st EXCEPT !.buf = Append(@, r), !.escape = FALSE]
    ELSE LET s1 == TokSwitch(st, r) IN
         IF i = n - 1 /\ Len(s1.buf) > 0
         THEN [s1 EXCEPT !.args = Append(@, s1.buf), !.flushed = TRUE]
         ELSE s1

\* the loop over the first k runes: the locals before it and after each pass
RECURSIVE TokTrace(_, _)
TokTrace(input, k) ==
    IF k = 0 THEN <<TokInit>>
    ELSE LET tr == TokTrace(input, k - 1) IN
         Append(tr, TokRune(tr[k], input[k], ByteOffset(input, k), ByteLen(input)))

\* the locals after the first k runes
TokState(input, k) == TokTrace(input, k)[k + 1]

parseCommandArgs(input) == TokState(input, Len(input)).args

\* strings.ToLower on a token
LowerRune(r) == IF r = "E" THEN "e" ELSE r
ToLower(token) == [k \in 1..Len(token) |-> LowerRune(token[k])]

\* parts[2:]
From(parts, k) == [j \in 1..(Len(parts) - k + 1) |-> parts[j + k - 1]]

\* ParseCommand, were it to hand the second token on as typed
ParseCommand_NoToLower(input) ==
    LET parts == parseCommandArgs(input) IN
    IF Len(parts) < 1 \/ parts[1] # PollPrefix
    THEN [command |-> <<>>, args |-> <<>>, valid |-> FALSE]
    ELSE IF Len(parts) < 2
    THEN [command |-> <<"h", "e", "l", "p">>, args |-> <<>>, valid |-> TRUE]
    ELSE [command |-> parts[2], args |-> From(parts, 3), valid |-> TRUE]

\* ParseCommand: (command, args, isValid)
ParseCommand(input) ==
    LET parts == parseCommandArgs(input) IN
    IF Len(parts) < 1 \/ parts[1] # PollPrefix
    THEN [command |-> <<>>, args |-> <<>>, valid |-> FALSE]
    ELSE IF Len(parts) < 2
    THEN [command |-> <<"h", "e", "l", "p">>, args |-> <<>>, valid |-> TRUE]
    ELSE [command |-> ToLower(parts[2]), args |-> From(parts, 3), valid |-> TRUE]

\* ParseCommand called once on an input
ParseCommandCall ==
    /\ call = NoCall
    /\ \E input \in Inputs :
         LET tr == TokTrace(input, Len(input)) IN
         call' = [fn |-> "ParseCommand", input |-> input,
                  passes |-> tr, end |-> tr[Len(tr)],
                  out |-> ParseCommand(input)]
    /\ UNCHANGED <<task, memVars, space, nuuid>>

NextParse == ParseCommandCall

SpecParse == Init /\ [][NextParse]_vars

(***************************************************************************)
(* PollCommandHandler.HandleCommand over a service that answers anything   *)
(***************************************************************************)
MaxArgs == 3           \* arguments handed to one command

\* command names as they reach the switch: the six it knows and some it does not
Commands == {"help", "create", "vote", "results", "end", "delete",
             "CREATE", "Help", "stop", ""}

ArgValues == {"1", "A"}
ArgLists  == UNION {[1..n -> ArgValues] : n \in 0..MaxArgs}

\* what the service hands back: a text and no error, or no text and an error
\* that is a rule of polls (closed, voted already, no such option, not the
\* creator) or comes from the storage
ServiceReplies == {[msg |-> "service text", err |-> "none"],
                   [msg |-> "", err |-> "none"],
                   [msg |-> "", err |-> "rule"],
                   [msg |-> "", err |-> "storage"]}

NoSvc == [op |-> "none"]

\* the service method of a command and the arguments it is given
SvcCall(command, args, userID) ==
    IF command = "create"
    THEN [op |-> "CreatePoll", user |-> userID, a |-> args[1], rest |-> Tail(args)]
    ELSE IF command = "vote"
    THEN [op |-> "AddVote", user |-> userID, a |-> args[1], rest |-> <<args[2]>>]
    ELSE IF command = "results"
    THEN [op |-> "GetResults", user |-> userID, a |-> args[1], rest |-> <<>>]
    ELSE IF command = "end"
    THEN [op |-> "EndPoll", user |-> userID, a |-> args[1], rest |-> <<>>]
    ELSE [op |-> "DeletePoll", user |-> userID, a |-> args[1], rest |-> <<>>]

\* the text a command answers with when its arguments do not fit
UsageHint(command) ==
    IF command = "create" THEN "usage: create needs a question and an option"
    ELSE IF command = "vote" THEN "usage: vote id choice"
    ELSE IF command = "results" THEN "usage: results id"
    ELSE IF command = "end" THEN "usage: end id"
    ELSE "usage: delete id"

\* the length checks, were vote to take two arguments or more
ArgsFit_VoteAtLeastTwo(command, n) ==
    IF command = "create" THEN n >= 2
    ELSE IF command = "vote" THEN n >= 2
    ELSE n = 1

\* the length check of each case, turned round: the arguments fit
ArgsFit(command, n) ==
    IF command = "create" THEN n >= 2
    ELSE IF command = "vote" THEN n = 2
    ELSE n = 1

\* the switch, were it to tell commands apart whatever their case
HandleCommand_AnyCase(command, args, userID, reply) ==
    LET c == IF command = "CREATE" THEN "create"
             ELSE IF command = "Help" THEN "help" ELSE command IN
    IF c = "help"
    THEN [msg |-> "help text", err |-> "none", svc |-> NoSvc]
    ELSE IF c \in {"create", "vote", "results", "end", "delete"}
    THEN IF ArgsFit(c, Len(args))
         THEN [msg |-> reply.msg, err |-> reply.err,
               svc |-> SvcCall(c, args, userID)]
         ELSE [msg |-> UsageHint(c), err |-> "none", svc |-> NoSvc]
    ELSE [msg |-> "unknown command", err |-> "none", svc |-> NoSvc]

\* HandleCommand: the text and error returned, and the service call made
HandleCommand(command, args, userID, reply) ==
    IF command = "help"
    THEN [msg |-> "help text", err |-> "none", svc |-> NoSvc]
    ELSE IF command \in {"create", "vote", "results", "end", "delete"}
    THEN IF ArgsFit(command, Len(args))
         THEN [msg |-> reply.msg, err |-> reply.err,
               svc |-> SvcCall(command, args, userID)]
         ELSE [msg |-> UsageHint(command), err |-> "none", svc |-> NoSvc]
    ELSE [msg |-> "unknown command", err |-> "none", svc |-> NoSvc]

\* HandleCommand called once
HandleCommandCall ==
    /\ call = NoCall
    /\ \E command \in Commands, args \in ArgLists, u \in Users,
          reply \in ServiceReplies :
         call' = [fn |-> "HandleCommand", command |-> command, args |-> args,
                  user |-> u, out |-> HandleCommand(command, args, u, reply)]
    /\ UNCHANGED <<task, memVars, space, nuuid>>

NextHandle == HandleCommandCall

SpecHandle == Init /\ [][NextHandle]_vars

(***************************************************************************)
(* Bot.handleWebSocketEvent over a service that answers anything           *)
(***************************************************************************)
BotUserId == "bot"     \* b.botUser.Id

\* the command literals of the switch, rune by rune
Spelling == [help    |-> <<"h", "e", "l", "p">>,
             create  |-> <<"c", "r", "e", "a", "t", "e">>,
             vote    |-> <<"v", "o", "t", "e">>,
             results |-> <<"r", "e", "s", "u", "l", "t", "s">>,
             end     |-> <<"e", "n", "d">>,
             delete  |-> <<"d", "e", "l", "e", "t", "e">>]

Sp == <<" ">>

\* texts posted to a channel: chat, commands that fit, commands that do not
PostTexts ==
    {<<"h", "i">>,
     <<"p", "o", "l", "l">> \o Sp \o Spelling.vote \o Sp \o <<"1">> \o Sp \o <<"A">>,
     PollPrefix,
     PollPrefix \o Sp \o Spelling.help,
     PollPrefix \o Sp \o Spelling.create \o Sp \o <<"Q">> \o Sp \o <<"A">>,
     PollPrefix \o Sp \o Spelling.create \o Sp \o <<"Q">>,
     PollPrefix \o Sp \o Spelling.vote \o Sp \o <<"1">> \o Sp \o <<"A">>,
     PollPrefix \o Sp \o Spelling.vote \o Sp \o <<"1">>,
     PollPrefix \o Sp \o Spelling.results \o Sp \o <<"1">>,
     PollPrefix \o Sp \o <<"E", "n", "d">> \o Sp \o <<"1">>,
     PollPrefix \o Sp \o Spelling.delete \o Sp \o <<"1">>,
     PollPrefix \o Sp \o <<"s", "t", "o", "p">>}

Channels == {"c1", "c2"}     \* post.ChannelId

\* websocket events: the type, whether data["post"] is a string, whether that
\* string parses as a post, and the post's author and text
Events == [type : {"posted", "typing"}, payload : {"string", "number"},
           parses : BOOLEAN, user : Users \cup {BotUserId}, text : PostTexts,
           channel : Channels]

\* err.Error() of what the service returns
ErrorText(err) == IF err = "rule" THEN "rule error text" ELSE "storage error text"

\* the case of `switch command` a token falls into
SwitchCase(command) ==
    IF \E c \in DOMAIN Spelling : Spelling[c] = command
    THEN CHOOSE c \in DOMAIN Spelling : Spelling[c] = command
    ELSE "default"

\* handleResponse, were it to hand an empty message to the client too
handleResponse_NoEmptyCheck(message) == message

\* handleResponse: nothing goes out with an empty message
handleResponse(message) == IF message = "" THEN "none" ELSE message

\* the b.client.CreatePost calls of one handleResponse(response), in order
CreatePosts(response) ==
    IF handleResponse(response.Message) = "none" THEN <<>>
    ELSE <<[ChannelId |-> response.ChannelId,
            Message |-> handleResponse(response.Message)]>>

\* the handler, were it to answer its own posts as well
handleWebSocketEvent_NoOwnCheck(ev, reply) ==
    LET args == parseCommandArgs(ev.text)
        ignore == [svc |-> NoSvc, posted |-> "none", posts |-> <<>>]
        respond(svc, message) ==
            [svc |-> svc, posted |-> handleResponse(message),
             posts |-> CreatePosts([ChannelId |-> ev.channel, Message |-> message])]
    IN
    IF ev.type # "posted" \/ ev.payload # "string" \/ ~ev.parses
    THEN ignore
    ELSE IF Len(args) < 1 \/ args[1] # PollPrefix
    THEN ignore
    ELSE IF Len(args) < 2
    THEN respond(NoSvc, "help text")
    ELSE LET c == SwitchCase(ToLower(args[2]))
             cmdArgs == From(args, 3)
         IN IF c = "help"
            THEN respond(NoSvc, "help text")
            ELSE IF c = "default"
            THEN respond(NoSvc, "unknown command")
            ELSE IF ~ArgsFit(c, Len(cmdArgs))
            THEN respond(NoSvc, UsageHint(c))
            ELSE respond(SvcCall(c, cmdArgs, ev.user),
                         IF reply.err # "none" THEN "generic error" ELSE reply.msg)

\* handleWebSocketEvent: the service call made and the message posted
handleWebSocketEvent(ev, reply) ==
    LET args == parseCommandArgs(ev.text)
        ignore == [svc |-> NoSvc, posted |-> "none", posts |-> <<>>]
        respond(svc, message) ==
            [svc |-> svc, posted |-> handleResponse(message),
             posts |-> CreatePosts([ChannelId |-> ev.channel, Message |-> message])]
    IN
    IF ev.type # "posted" \/ ev.payload # "string" \/ ~ev.parses
       \/ ev.user = BotUserId
    THEN ignore
    ELSE IF Len(args) < 1 \/ args[1] # PollPrefix
    THEN ignore
    ELSE IF Len(args) < 2
    THEN respond(NoSvc, "help text")
    ELSE LET c == SwitchCase(ToLower(args[2]))
             cmdArgs == From(args, 3)
         IN IF c = "help"
            THEN respond(NoSvc, "help text")
            ELSE IF c = "default"
            THEN respond(NoSvc, "unknown command")
            ELSE IF ~ArgsFit(c, Len(cmdArgs))
            THEN respond(NoSvc, UsageHint(c))
            ELSE respond(SvcCall(c, cmdArgs, ev.user),
                         IF reply.err # "none" THEN "generic error" ELSE reply.msg)

\* one event delivered to the handler
WebSocketEventCall ==
    /\ call = NoCall
    /\ \E ev \in Events, reply \in ServiceReplies :
         LET out == handleWebSocketEvent(ev, reply) IN
         call' = [fn |-> "handleWebSocketEvent", event |-> ev,
                  reply |-> IF out.svc = NoSvc THEN [msg |-> "", err |-> "none"]
                            ELSE reply,
                  out |-> out]
    /\ UNCHANGED <<task, memVars, space, nuuid>>

NextBot == WebSocketEventCall

SpecBot == Init /\ [][NextBot]_vars

(***************************************************************************)
(* Bot.Start: the event loop and the handler goroutines it starts          *)
(***************************************************************************)
MaxEvents == 3         \* events the websocket delivers in one behaviour

\* how a handler goroutine ends: it answered, the service returned an error,
\* or b.client.CreatePost did
HandlerEnds == {"answered", "service error", "post error"}

\* Start is called; initialize() fails and Start returns its error, or it
\* succeeds, the deferred wait-and-close is set up and Listen is called
StartCall ==
    /\ call = NoCall
    /\ \E ctx \in Contexts, init \in {"ok", "error"} :
         call' = [fn |-> "Start", ctx |-> ctx,
                  pc |-> IF init = "ok" THEN "select" ELSE "returned",
                  err |-> IF init = "ok" THEN "none" ELSE "initialize error",
                  chan |-> "open", arrived |-> 0, pending |-> 0,
                  running |-> 0, dispatched |-> 0, failed |-> 0,
                  wsClosed |-> FALSE]
    /\ UNCHANGED <<task, memVars, space, nuuid>>

Started == call.fn = "Start"

\* the caller cancels the context, or its deadline passes
CtxEnds ==
    /\ Started /\ call.ctx = "live"
    /\ \E ctx \in Contexts \ {"live"} : call' = [call EXCEPT !.ctx = ctx]
    /\ UNCHANGED <<task, memVars, space, nuuid>>

\* the websocket client puts an event on EventChannel
EventArrives ==
    /\ Started /\ call.chan = "open" /\ ~call.wsClosed
    /\ call.arrived < MaxEvents
    /\ call' = [call EXCEPT !.arrived = @ + 1, !.pending = @ + 1]
    /\ UNCHANGED <<task, memVars, space, nuuid>>

\* the websocket client closes EventChannel (the connection was lost)
ChannelCloses ==
    /\ Started /\ call.chan = "open"
    /\ call' = [call EXCEPT !.chan = "closed"]
    /\ UNCHANGED <<task, memVars, space, nuuid>>

\* case <-ctx.Done(), were it to return nil
SelectDone_ReturnsNil ==
    /\ Started /\ call.pc = "select"
    /\ call.ctx # "live"
    /\ call' = [call EXCEPT !.pc = "wait", !.err = "none"]
    /\ UNCHANGED <<task, memVars, space, nuuid>>

\* case <-ctx.Done(): return ctx.Err(), which runs the deferred function
SelectDone ==
    /\ Started /\ call.pc = "select"
    /\ call.ctx # "live"
    /\ call' = [call EXCEPT !.pc = "wait", !.err = CtxErr(call.ctx)]
    /\ UNCHANGED <<task, memVars, space, nuuid>>

\* case event, ok := <-EventChannel() with ok: wg.Add(1) and the goroutine
SelectEvent ==
    /\ Started /\ call.pc = "select"
    /\ call.pending > 0
    /\ call' = [call EXCEPT !.pending = @ - 1, !.running = @ + 1,
                            !.dispatched = @ + 1]
    /\ UNCHANGED <<task, memVars, space, nuuid>>

\* the same case with !ok: the channel is closed and has nothing left in it
SelectClosed ==
    /\ Started /\ call.pc = "select"
    /\ call.chan = "closed" /\ call.pending = 0
    /\ call' = [call EXCEPT !.pc = "wait", !.err = "EventChannel closed"]
    /\ UNCHANGED <<task, memVars, space, nuuid>>

\* a handler goroutine, were its failure to end the loop
HandlerReturns_FailureStopsLoop ==
    /\ Started /\ call.running > 0
    /\ \E end \in HandlerEnds :
         call' = [call EXCEPT !.running = @ - 1,
                              !.failed = IF end = "answered" THEN @ ELSE @ + 1,
                              !.pc = IF end # "answered" /\ @ = "select"
                                     THEN "wait" ELSE @,
                              !.err = IF end # "answered" /\ call.pc = "select"
                                      THEN end ELSE @]
    /\ UNCHANGED <<task, memVars, space, nuuid>>

\* a handler goroutine returns from handleWebSocketEvent, whatever happened
\* in it, and its deferred wg.Done() runs
HandlerReturns ==
    /\ Started /\ call.running > 0
    /\ \E end \in HandlerEnds :
         call' = [call EXCEPT !.running = @ - 1,
                              !.failed = IF end = "answered" THEN @ ELSE @ + 1]
    /\ UNCHANGED <<task, memVars, space, nuuid>>

\* the deferred function, were it to close without waiting
DeferredWait_NoWait ==
    /\ Started /\ call.pc = "wait"
    /\ call' = [call EXCEPT !.pc = "close"]
    /\ UNCHANGED <<task, memVars, space, nuuid>>

\* the deferred function: wg.Wait() returns once no handler is left ...
DeferredWait ==
    /\ Started /\ call.pc = "wait"
    /\ call.running = 0
    /\ call' = [call EXCEPT !.pc = "close"]
    /\ UNCHANGED <<task, memVars, space, nuuid>>

\* ... then b.wsClient.Close(), and Start returns
DeferredClose ==
    /\ Started /\ call.pc = "close"
    /\ call' = [call EXCEPT !.pc = "returned", !.wsClosed = TRUE]
    /\ UNCHANGED <<task, memVars, space, nuuid>>

NextStart ==
    \/ StartCall
    \/ CtxEnds
    \/ EventArrives
    \/ ChannelCloses
    \/ SelectDone
    \/ SelectEvent
    \/ SelectClosed
    \/ HandlerReturns
    \/ DeferredWait
    \/ DeferredClose

SpecStart == Init /\ [][NextStart]_vars

\* the scheduler runs every goroutine that can run; a select with a ready
\* case takes one, and a case that stays ready is taken in the end
FairStart ==
    /\ SpecStart
    /\ WF_vars(SelectDone)
    /\ WF_vars(SelectEvent)
    /\ WF_vars(SelectClosed)
    /\ WF_vars(HandlerReturns)
    /\ WF_vars(DeferredWait)
    /\ WF_vars(DeferredClose)

(***************************************************************************)
(* The retry loops on their own: AddVoteAtomic and ConnectWithRetry        *)
(***************************************************************************)
MaxRetries == 5        \* the largest cfg.Retries tried, and answers per run

\* what conn.Update is answered with on each pass
UpdateAnswers == {"ok", "transaction conflict", "other error"}

\* the sleep, were it to use the loop variable as it is
BackoffMs_FromZero(i) == i * 20

\* time.Duration(i+1) * 20 * time.Millisecond, in milliseconds
BackoffMs(i) == (i + 1) * 20

\* the loop of AddVoteAtomic from pass i on, against the answers given:
\* the error returned, the requests sent and the sleeps taken
RECURSIVE AddVoteAtomicLoop(_, _, _)
AddVoteAtomicLoop(answers, i, sleeps) ==
    IF i >= MaxAttempts
    THEN [err |-> "gave up", sent |-> i, sleeps |-> sleeps]
    ELSE IF answers[i + 1] = "ok"
    THEN [err |-> "nil", sent |-> i + 1, sleeps |-> sleeps]
    ELSE IF answers[i + 1] = "transaction conflict"
    THEN AddVoteAtomicLoop(answers, i + 1, Append(sleeps, BackoffMs(i)))
    ELSE [err |-> "other error", sent |-> i + 1, sleeps |-> sleeps]

\* AddVoteAtomic called once with a live context
AddVoteAtomicCall ==
    /\ call = NoCall
    /\ \E answers \in [1..MaxAttempts -> UpdateAnswers] :
         call' = [fn |-> "AddVoteAtomic", answers |-> answers,
                  out |-> AddVoteAtomicLoop(answers, 0, <<>>)]
    /\ UNCHANGED <<task, memVars, space, nuuid>>

\* what one attempt of ConnectWithRetry meets
ConnectAnswers == {"ok", "connect fails", "ping fails"}

ConnectInit == [attempt |-> 1, conn |-> "none", err |-> "nil", attempts |-> 0,
                sleeps |-> <<>>, closed |-> 0, returned |-> FALSE]

\* one pass of the loop, were it to sleep after the last attempt as well
ConnectAttempt_SleepsAfterLast(st, answer, retries) ==
    IF answer = "ok"
    THEN [st EXCEPT !.conn = "connection", !.err = "nil", !.attempts = @ + 1,
                    !.returned = TRUE]
    ELSE [st EXCEPT !.err = answer, !.attempts = @ + 1,
                    !.closed = IF answer = "ping fails" THEN @ + 1 ELSE @,
                    !.sleeps = Append(@, st.attempt),
                    !.attempt = @ + 1]

\* one pass of the loop of ConnectWithRetry: Connect, Ping, and on a failure
\* the sleep of `attempt` seconds unless this was the last attempt
ConnectAttempt(st, answer, retries) ==
    IF answer = "ok"
    THEN [st EXCEPT !.conn = "connection", !.err = "nil", !.attempts = @ + 1,
                    !.returned = TRUE]
    ELSE [st EXCEPT !.err = answer, !.attempts = @ + 1,
                    !.closed = IF answer = "ping fails" THEN @ + 1 ELSE @,
                    !.sleeps = IF st.attempt < retries
                               THEN Append(@, st.attempt) ELSE @,
                    !.attempt = @ + 1]

\* the loop `for attempt := 1; attempt <= cfg.Retries; attempt++` and the
\* return after it
RECURSIVE ConnectLoop(_, _, _)
ConnectLoop(st, answers, retries) ==
    IF st.returned THEN st
    ELSE IF st.attempt > retries
    THEN [st EXCEPT !.conn = "none", !.err = "gave up: " \o st.err,
                    !.returned = TRUE]
    ELSE ConnectLoop(ConnectAttempt(st, answers[st.attempt], retries),
                     answers, retries)

ConnectWithRetry(answers, retries) == ConnectLoop(ConnectInit, answers, retries)

\* ConnectWithRetry called once
ConnectWithRetryCall ==
    /\ call = NoCall
    /\ \E retries \in 0..MaxRetries, answers \in [1..MaxRetries -> ConnectAnswers] :
         call' = [fn |-> "ConnectWithRetry", retries |-> retries,
                  answers |-> answers,
                  out |-> ConnectWithRetry(answers, retries)]
    /\ UNCHANGED <<task, memVars, space, nuuid>>

NextRetry ==
    \/ AddVoteAtomicCall
    \/ ConnectWithRetryCall

SpecRetry == Init /\ [][NextRetry]_vars

(***************************************************************************)
(* Properties                                                              *)
(***************************************************************************)
VotesOk(id, c) == {t \in Tasks : Done(t, "vote", "ok") /\ task[t].id = id /\ task[t].choice = c}
OpsOn(op, id)  == {t \in Tasks : task[t].op = op /\ task[t].id = id}
OkOn(op, id)   == {t \in Tasks : Done(t, op, "ok") /\ task[t].id = id}

RECURSIVE SumCounts(_, _)
SumCounts(counts, labels) ==
    IF labels = {} THEN 0
    ELSE LET l == CHOOSE x \in labels : TRUE
         IN counts[l] + SumCounts(counts, labels \ {l})

\* C1: an AddVote called after an AddVote of the same voter on the same poll
\* has returned success fails with the duplicate-vote error (and so never
\* reaches the increment or the save).
C1_SecondVoteIsDuplicate ==
    \A t \in Tasks :
        (task[t].op = "vote" /\ task[t].prior) => Done(t, "vote", "duplicate")

\* C2: for every stored poll each option's count is the number of AddVote
\* calls for that option that returned success, and the counts sum to the
\* size of the voter set.
C2_CountsMatchVotes ==
    \A id \in PollIds :
        space[id] # NoTuple =>
            LET poll == parsePollTuple(space[id]) IN
            /\ \A l \in DOMAIN poll.Options :
                   poll.Options[l] = Cardinality(VotesOk(id, l))
            /\ SumCounts(poll.Options, DOMAIN poll.Options) = Cardinality(poll.Voters)

\* C3: Tarantool wiring; when two AddVote calls of different voters on the same
\* poll have both returned success, the stored poll holds both voters and its
\* counts hold both votes.
C3_NoLostVote ==
    \A t1, t2 \in Tasks :
        ( /\ t1 # t2
          /\ Done(t1, "vote", "ok") /\ Done(t2, "vote", "ok")
          /\ task[t1].id = task[t2].id
          /\ task[t1].user # task[t2].user
          /\ space[task[t1].id] # NoTuple )
        => LET poll == parsePollTuple(space[task[t1].id]) IN
           /\ {task[t1].user, task[t2].user} \subseteq poll.Voters
           /\ \A l \in DOMAIN poll.Options :
                  poll.Options[l] >= Cardinality({t \in {t1, t2} : task[t].choice = l})

C5_MemCountsMatchVoters ==
    \A id \in PollIds :
        ( /\ MemExists(polls, id)
          /\ Cardinality(OkOn("create", id)) = 1
          /\ OpsOn("end", id) = {} /\ OpsOn("delete", id) = {}
          /\ OpsOn("vote", id) # {}
          /\ \A t \in OpsOn("vote", id) : Done(t, "vote", "ok")
          /\ \A t1, t2 \in OpsOn("vote", id) : t1 # t2 => task[t1].user # task[t2].user )
        => \A l \in DOMAIN heap[polls[id].Options] :
               heap[polls[id].Options][l] = Cardinality(VotesOk(id, l))

\* C6: Tarantool wiring; an AddVote called after EndPoll by the creator has
\* returned success for the poll fails with the poll-closed error.
C6_VoteAfterEndIsRejected ==
    \A t \in Tasks :
        (task[t].op = "vote" /\ task[t].afterEnd) => Done(t, "vote", "closed")

\* the same stored poll before and after a step: present in both states and
\* carrying the Options map it was created with
SamePoll(id) ==
    /\ MemExists(polls, id) /\ MemExists(polls', id)
    /\ polls'[id].Options = polls[id].Options

\* C7: no step turns the closed flag of a stored poll from true to false.
C7_ClosedIsMonotonic ==
    [][\A id \in PollIds : (SamePoll(id) /\ polls[id].Closed) => polls'[id].Closed]_vars

\* C8: no step changes the option counts of a stored poll whose closed flag is
\* true.
C8_NoCountChangeWhileClosed ==
    [][\A id \in PollIds :
          (SamePoll(id) /\ polls[id].Closed)
              => heap'[polls[id].Options] = heap[polls[id].Options]]_vars

\* C9: EndPoll and DeletePoll on an existing poll: called by another identity
\* than the stored creator they return the unauthorized error in the step
\* that read the poll and the store is not written; called by the creator
\* they go on to their store write, which returns success.
C9_CreatorOnly ==
    [][\A t \in Tasks :
          /\ ( /\ task[t].pc = "idle"
               /\ task'[t].op \in {"end", "delete"}
               /\ MemExists(polls, task'[t].id) )
             => IF task'[t].user # polls[task'[t].id].Creator
                THEN /\ task'[t].pc = "done" /\ task'[t].res = "unauthorized"
                     /\ polls' = polls /\ heap' = heap
                ELSE task'[t].pc \in {"save", "del"}
          /\ ( /\ task[t].op \in {"end", "delete"}
               /\ task[t].pc \in {"save", "del"}
               /\ task'[t] # task[t] )
             => task'[t].pc = "done" /\ task'[t].res = "ok"]_vars

\* an EndPoll by a stranger was refused and left the poll open, after which
\* a DeletePoll by the creator succeeded
C9_Witness ==
    \E t1, t2, t3 \in Tasks :
        /\ Done(t3, "create", "ok")
        /\ Done(t1, "end", "unauthorized") /\ task[t1].id = task[t3].id
        /\ task[t1].user # task[t3].user
        /\ Done(t2, "delete", "ok") /\ task[t2].id = task[t3].id
        /\ task[t2].user = task[t3].user

\* C10: of the DeletePoll calls on one poll id at most as many return success
\* as polls were created under that id (the loser of a race gets not-found).
C10_OneDeletePerPoll ==
    \A id \in PollIds :
        Cardinality(OkOn("delete", id)) <= Cardinality(OkOn("create", id))

\* C11: in-memory wiring; once a DeletePoll on an id has returned success and
\* the id is absent from the store, no step puts a poll back under that id
\* other than a CreatePoll storing a new poll (one with a new Options map):
\* an AddVote or EndPoll that read the poll before the delete does not write
\* it back.
C11_DeletedStaysDeleted ==
    [][\A id \in PollIds :
          ( /\ OkOn("delete", id) # {}
            /\ ~MemExists(polls, id)
            /\ MemExists(polls', id) )
          => polls'[id].Options > Len(heap)]_vars

InvalidCreate(question, options) ==
    \/ Len(options) < 1
    \/ QuestionLen(question) > MaxQuestionLen
    \/ \E k \in 1..Len(options) : OptionLen(options[k]) > MaxOptionLen
    \/ HasDuplicates(options)

\* C13: in-memory wiring; a CreatePoll called with an empty option list, a
\* question longer than the maximum, an option longer than the maximum or two
\* equal options returns the validation error (having written nothing).
C13_InvalidCreateIsRejected ==
    \A t \in Tasks :
        ( /\ task[t].op = "create" /\ task[t].pc = "done"
          /\ InvalidCreate(task[t].q, task[t].opts) )
        => task[t].res = "validation"

\* C14: in-memory wiring; any two CreatePoll calls that returned success were
\* given different ids (so neither replaced the poll of the other).
C14_CreatedIdsDiffer ==
    \A t1, t2 \in Tasks :
        ( /\ t1 # t2
          /\ Done(t1, "create", "ok") /\ Done(t2, "create", "ok") )
        => task[t1].id # task[t2].id

\* C15: in-memory wiring; an AddVote whose pollID does not have the id shape
\* returns the validation error (without having called the store).
C15_BadIdIsValidationError ==
    \A t \in Tasks :
        (task[t].op = "vote" /\ task[t].id = BadID /\ task[t].pc = "done")
        => task[t].res = "validation"

\* C16: in-memory wiring; an AddVote that finds its poll in the store and open
\* goes on to the increment only with a choice that is a key of the poll's
\* Options map; otherwise it returns the invalid-choice error in that step
\* and the store and the maps are as they were. No map ever gets a key that
\* was not given to CreatePoll.
C16_InvalidChoiceIsRejected ==
    [][/\ \A t \in Tasks :
             ( /\ task[t].pc = "idle"
               /\ task'[t].op = "vote"
               /\ MemExists(polls, task'[t].id)
               /\ ~polls[task'[t].id].Closed )
             => \/ /\ task'[t].pc = "inc"
                   /\ task'[t].choice \in DOMAIN heap[polls[task'[t].id].Options]
                \/ /\ task'[t].pc = "done" /\ task'[t].res = "invalid"
                   /\ polls' = polls /\ heap' = heap
       /\ \A r \in 1..Len(heap') : "X" \notin DOMAIN heap'[r]]_vars

\* an AddVote on a poll that was created once and never ended or deleted has
\* returned the invalid-choice error, and the poll has no vote
C16_Witness ==
    \E t \in Tasks, id \in PollIds :
        /\ Done(t, "vote", "invalid") /\ task[t].id = id
        /\ Cardinality(OkOn("create", id)) = 1
        /\ OpsOn("end", id) = {} /\ OpsOn("delete", id) = {}
        /\ MemExists(polls, id) /\ ~polls[id].Closed
        /\ \A l \in DOMAIN heap[polls[id].Options] : heap[polls[id].Options][l] = 0

\* C17: in-memory wiring; an EndPoll called by the creator on a poll whose
\* closed flag is already true is not refused: it goes on to its SavePoll,
\* and that SavePoll, finding the same closed poll still in the store,
\* returns success and leaves the store and the counts exactly as they were.
C17_SecondEndIsNoOp ==
    [][\A t \in Tasks :
          /\ ( /\ task[t].pc = "idle"
               /\ task'[t].op = "end"
               /\ MemExists(polls, task'[t].id)
               /\ polls[task'[t].id].Closed
               /\ polls[task'[t].id].Creator = task'[t].user )
             => /\ task'[t].pc = "save"
                /\ polls' = polls /\ heap' = heap
          /\ ( /\ task[t].op = "end" /\ task[t].pc = "save"
               /\ task'[t] # task[t]
               /\ MemExists(polls, task[t].id)
               /\ polls[task[t].id].Closed
               /\ polls[task[t].id].Options = task[t].poll.Options )
             => /\ task'[t].pc = "done" /\ task'[t].res = "ok"
                /\ polls' = polls /\ heap' = heap]_vars

\* an EndPoll called after another EndPoll on the same poll had returned
\* success has returned success too, and the poll is in the store, closed
C17_Witness ==
    \E t \in Tasks :
        /\ Done(t, "end", "ok") /\ task[t].afterEnd
        /\ OpsOn("delete", task[t].id) = {}
        /\ Cardinality(OkOn("create", task[t].id)) = 1
        /\ MemExists(polls, task[t].id) /\ polls[task[t].id].Closed

\* C18: in-memory wiring; a GetResults that returns leaves the store and the
\* maps unchanged; on a poll that is in the store it returns a report with,
\* for every key of the poll's Options map, exactly one line, carrying the
\* count stored for that key, and no other line; on a missing poll it
\* returns the not-found error.
C18_ResultsReportEveryOption ==
    [][\A t \in Tasks :
          (task[t].pc = "idle" /\ task'[t].op = "results")
          => /\ polls' = polls /\ heap' = heap
             /\ task'[t].pc = "done"
             /\ IF MemExists(polls, task'[t].id)
                THEN LET counts == heap[polls[task'[t].id].Options] IN
                     /\ task'[t].res = "ok"
                     /\ \A l \in DOMAIN counts :
                            {ln \in task'[t].out : ln[1] = l} = {<<l, counts[l]>>}
                     /\ \A ln \in task'[t].out : ln[1] \in DOMAIN counts
                ELSE task'[t].res = "notfound"]_vars

\* a GetResults has returned a report with a line for an option that has a
\* vote and a line for an option that has none
C18_Witness ==
    \E t \in Tasks :
        /\ Done(t, "results", "ok")
        /\ \E l1, l2 \in Labels : <<l1, 1>> \in task[t].out /\ <<l2, 0>> \in task[t].out

\* update requests one AddVoteAtomic call has sent so far: those answered
\* with a conflict, and the one answered otherwise if there was one
Attempts(t) == task[t].i + (IF task[t].last \in {"ok", "error"} THEN 1 ELSE 0)

\* C19: Tarantool repository on a connection that may answer any update with
\* a conflict or an error, fair scheduling; an AddVoteAtomic call sends at
\* most 5 update requests, has returned nil as soon as one of them succeeded,
\* has returned the terminal error once 5 of them were answered with a
\* conflict, and every call that entered the loop returns.
C19_AtMostFiveAttempts ==
    /\ [](\A t \in Tasks :
             task[t].op = "vote" =>
                 /\ Attempts(t) <= MaxAttempts
                 /\ (task[t].last = "ok" => Done(t, "vote", "ok"))
                 /\ (task[t].i = MaxAttempts
                        => Done(t, "vote", "storage") /\ task[t].last = "conflict"))
    /\ \A t \in Tasks : (task[t].pc = "update") ~> (task[t].pc = "done")

\* an AddVote has given up after five conflicts
C19_Witness ==
    \E t \in Tasks :
        /\ Done(t, "vote", "storage")
        /\ task[t].i = MaxAttempts /\ task[t].last = "conflict"

\* C20: Tarantool repository on a connection that may answer any update with
\* a conflict or an error; the step in which an update request of
\* AddVoteAtomic is answered with an error other than a transaction conflict
\* is the step in which the AddVote returns the storage error: the store is
\* not written, the loop counter does not move, and the task does nothing
\* after it.
C20_OtherErrorReturnsAtOnce ==
    [][\A t \in Tasks :
          /\ (task[t].pc = "update" /\ task'[t].last = "error")
             => /\ task'[t].pc = "done" /\ task'[t].res = "storage"
                /\ task'[t].i = task[t].i
                /\ space' = space
          /\ (task[t].last = "error" /\ task[t].pc = "done")
             => task'[t] = task[t]]_vars

\* an AddVote has returned the storage error on an update answered with an
\* error, after one conflict and a retry, and its vote is not in the store
C20_Witness ==
    \E t \in Tasks :
        /\ Done(t, "vote", "storage")
        /\ task[t].last = "error" /\ task[t].i = 1
        /\ space[task[t].id] # NoTuple
        /\ task[t].user \notin parsePollTuple(space[task[t].id]).Voters

\* C21: Tarantool repository; a ClosePoll with a live context on a record
\* that is in the space leaves a record that GetPoll reads as closed, with
\* as many fields as before and with id, creator, question, voters and
\* options as before.
C21_ClosePollSetsClosedOnly ==
    [][( /\ call'.fn = "ClosePoll" /\ call'.ctx = "live"
         /\ space[call'.id] # NoTuple )
       => LET old == space[call'.id]
              new == space'[call'.id]
          IN /\ new # NoTuple
             /\ parsePollTuple(new).Closed = TRUE
             /\ Len(new) = Len(old)
             /\ \A k \in 1..5 : new[k] = old[k]]_vars

\* C22: Tarantool repository; SavePoll, AddVoteAtomic, GetPoll, ClosePoll and
\* DeletePoll called with a context that is already cancelled or past its
\* deadline return the context's error, send no request and leave the space
\* as it was.
C22_CancelledContextSendsNothing ==
    [][( /\ call'.fn \in {"SavePoll", "AddVoteAtomic", "GetPoll", "ClosePoll", "DeletePoll"}
         /\ call'.ctx # "live" )
       => /\ call'.err = call'.ctx
          /\ call'.sent = 0
          /\ space' = space]_vars

\* a ClosePoll with a cancelled context has returned and the record it was
\* called for is in the space, still open
C22_Witness ==
    /\ call.fn = "ClosePoll" /\ call.ctx = "canceled"
    /\ call.err = "canceled" /\ call.sent = 0
    /\ space[call.id] # NoTuple
    /\ ~parsePollTuple(space[call.id]).Closed

\* C25: ParseCommand reports a valid command exactly when the first token of
\* the text is "!poll"; an invalid text gives the empty command and no
\* arguments; "!poll" alone gives "help" and no arguments; otherwise the
\* command is the second token in lower case and the arguments are the tokens
\* after it, in their order and as typed.
C25_ParseCommandShape ==
    call.fn = "ParseCommand" =>
        LET toks == parseCommandArgs(call.input)
            out  == call.out
        IN /\ out.valid <=> (Len(toks) >= 1 /\ toks[1] = PollPrefix)
           /\ ~out.valid => out.command = <<>> /\ out.args = <<>>
           /\ out.valid /\ Len(toks) = 1 =>
                  out.command = <<"h", "e", "l", "p">> /\ out.args = <<>>
           /\ out.valid /\ Len(toks) >= 2 =>
                  /\ Len(out.command) = Len(toks[2])
                  /\ \A k \in 1..Len(toks[2]) :
                         out.command[k] = IF toks[2][k] = "E" THEN "e" ELSE toks[2][k]
                  /\ Len(out.args) = Len(toks) - 2
                  /\ \A j \in 1..Len(out.args) : out.args[j] = toks[j + 2]

\* "!poll E E": the command comes out in lower case, the argument as typed
C25_Witness ==
    /\ call.fn = "ParseCommand"
    /\ call.out.valid
    /\ call.out.command = <<"e">>
    /\ call.out.args = <<<<"E">>>>

\* C26: when the text ends with something in the buffer, that text is the last
\* token returned, whatever the last character was: one byte or several,
\* inside a quote nobody closed, or taken by a backslash before it.
C26_TrailingTextIsEmitted ==
    call.fn = "ParseCommand" /\ call.end.buf # <<>> =>
        /\ call.end.flushed
        /\ call.end.args # <<>>
        /\ call.end.args[Len(call.end.args)] = call.end.buf

\* C27: a quote outside quotes opens a quoted token and is not written to it;
\* inside, the token ends at the next unescaped quote of the same kind and
\* nowhere else, that quote is not written either, and a space or the other
\* quote is written as it is and ends nothing.
C27_QuotedToken ==
    call.fn = "ParseCommand" =>
        \A k \in 1..Len(call.input) :
            LET s0 == call.passes[k]
                s1 == call.passes[k + 1]
                r  == call.input[k]
            IN /\ ~s0.inQuotes /\ IsQuote(r) =>
                      s1.inQuotes /\ s1.quoteChar = r /\ s1.buf = s0.buf
               /\ s0.inQuotes =>
                      /\ ~s1.inQuotes <=> (~s0.escape /\ r = s0.quoteChar)
                      /\ ~s1.inQuotes =>
                             s1.args = Append(s0.args, s0.buf) /\ s1.buf = <<>>
                      /\ ~s0.escape /\ (IsSpace(r) \/ (IsQuote(r) /\ r # s0.quoteChar)) =>
                             /\ s1.buf = Append(s0.buf, r)
                             /\ s1.quoteChar = s0.quoteChar
                             /\ k < Len(call.input) => s1.args = s0.args

\* `" '"`: one token, a space and a single quote, between double quotes
C27_Witness ==
    /\ call.fn = "ParseCommand"
    /\ ~call.end.inQuotes
    /\ \E j \in 1..Len(call.end.args) : call.end.args[j] = <<" ", "'">>

\* C28: inside an open quote a backslash is not written and the character
\* after it is written as it is, a quote included, which then closes nothing;
\* outside quotes a backslash is written like any letter and escapes nothing.
C28_Backslash ==
    call.fn = "ParseCommand" =>
        \A k \in 1..Len(call.input) :
            LET s0 == call.passes[k]
                s1 == call.passes[k + 1]
                r  == call.input[k]
            IN /\ s0.inQuotes /\ ~s0.escape /\ r = "\\" =>
                      /\ s1.escape /\ s1.buf = s0.buf /\ s1.inQuotes
                      /\ k < Len(call.input) => s1.args = s0.args
               /\ s0.escape =>
                      /\ s0.inQuotes /\ s1.inQuotes /\ ~s1.escape
                      /\ s1.buf = Append(s0.buf, r)
                      /\ s1.args = s0.args
               /\ ~s0.inQuotes =>
                      /\ ~s0.escape
                      /\ r = "\\" => /\ s1.buf = Append(s0.buf, r)
                                     /\ ~s1.escape /\ ~s1.inQuotes

\* `\"\"`: the first backslash is kept, the quote after it opens a token, the
\* second backslash is dropped and the quote after it is kept and closes nothing
C28_Witness ==
    /\ call.fn = "ParseCommand"
    /\ call.input = <<"\\", "\"", "\\", "\"">>
    /\ call.end.inQuotes
    /\ call.end.buf = <<"\\", "\"">>

\* C23: create with fewer than two arguments, vote with other than two, and
\* results, end and delete with other than one, return the usage hint of the
\* command with no error and call nothing on the service.
C23_WrongArgCountGivesUsage ==
    call.fn = "HandleCommand" =>
        LET n == Len(call.args) IN
        /\ call.command = "create" /\ n < 2 =>
               /\ call.out.msg = "usage: create needs a question and an option"
               /\ call.out.err = "none" /\ call.out.svc = NoSvc
        /\ call.command = "vote" /\ n # 2 =>
               /\ call.out.msg = "usage: vote id choice"
               /\ call.out.err = "none" /\ call.out.svc = NoSvc
        /\ call.command = "results" /\ n # 1 =>
               /\ call.out.msg = "usage: results id"
               /\ call.out.err = "none" /\ call.out.svc = NoSvc
        /\ call.command = "end" /\ n # 1 =>
               /\ call.out.msg = "usage: end id"
               /\ call.out.err = "none" /\ call.out.svc = NoSvc
        /\ call.command = "delete" /\ n # 1 =>
               /\ call.out.msg = "usage: delete id"
               /\ call.out.err = "none" /\ call.out.svc = NoSvc

\* vote with three arguments got its usage hint
C23_Witness ==
    /\ call.fn = "HandleCommand"
    /\ call.command = "vote"
    /\ Len(call.args) = 3
    /\ call.out.msg = "usage: vote id choice"

\* C24: a command name that is not exactly help, create, vote, results, end or
\* delete, in this very case, returns the unknown-command text with no error
\* and calls nothing on the service.
C24_UnknownCommand ==
    call.fn = "HandleCommand"
    /\ call.command \notin {"help", "create", "vote", "results", "end", "delete"} =>
        /\ call.out.msg = "unknown command"
        /\ call.out.err = "none"
        /\ call.out.svc = NoSvc

\* CREATE with a question and an option is not known
C24_Witness ==
    /\ call.fn = "HandleCommand"
    /\ call.command = "CREATE"
    /\ Len(call.args) = 2
    /\ call.out.msg = "unknown command"

\* C29: when the service fails on a rule of polls the bot posts the text of
\* that error, and when it fails for the storage the bot posts the generic
\* failure message.
C29_RuleErrorsAreShown ==
    call.fn = "handleWebSocketEvent" /\ call.out.svc # NoSvc =>
        /\ call.reply.err = "rule" => call.out.posted = ErrorText("rule")
        /\ call.reply.err = "storage" => call.out.posted = "generic error"

C31_OneReplyToTheSameChannel ==
    call.fn = "handleWebSocketEvent" =>
        /\ Len(call.out.posts) <= 1
        /\ \A k \in 1..Len(call.out.posts) :
               /\ call.out.posts[k].ChannelId = call.event.channel
               /\ call.out.posts[k].Message # ""

\* a command posted in channel c2 went to the service and its text was
\* posted in c2
C31_Witness ==
    /\ call.fn = "handleWebSocketEvent"
    /\ call.event.channel = "c2"
    /\ call.out.svc # NoSvc
    /\ call.out.posts = <<[ChannelId |-> "c2", Message |-> "service text"]>>

C33_FailedHandlerLeavesLoopRunning ==
    /\ [][call.fn = "Start" /\ call'.failed > call.failed
          => /\ call'.pc = call.pc
             /\ call'.err = call.err
             /\ call'.pending = call.pending
             /\ call'.chan = call.chan
             /\ call'.ctx = call.ctx
             /\ call'.running = call.running - 1]_vars
    /\ \A n \in 0..MaxEvents :
          (/\ call.fn = "Start" /\ call.pc = "select" /\ call.failed > 0
           /\ call.pending > 0 /\ call.dispatched = n)
          ~> (call.fn = "Start" /\ (call.dispatched > n \/ call.ctx # "live"))

\* after a handler failed, with the context live and the channel open, a
\* later event was dispatched
C33_Witness ==
    /\ call.fn = "Start"
    /\ call.pc = "select"
    /\ call.ctx = "live" /\ call.chan = "open"
    /\ call.failed = 1
    /\ call.dispatched = 3

\* C40: Start has not returned, and the websocket client is not closed, while
\* a handler it started is still running, whichever way the loop ended.
C40_ReturnsAfterHandlers ==
    call.fn = "Start" /\ call.running > 0 =>
        /\ call.pc \notin {"close", "returned"}
        /\ ~call.wsClosed

\* the loop has ended on a closed channel and Start waits in its deferred
\* function for a handler
C40_Witness ==
    /\ call.fn = "Start"
    /\ call.pc = "wait"
    /\ call.err = "EventChannel closed"
    /\ call.running > 0
    /\ ~call.wsClosed

\* a step in which some handler enters CreatePoll
CreateStep == \E t \in Tasks : task[t].pc = "idle" /\ task'[t].op = "create"

\* C34: between its creation and its deletion a stored poll keeps its id, its
\* creator, its question and its set of option labels: no step of AddVote or
\* EndPoll, in any interleaving, changes them.
C34_IdentityFieldsAreFrozen ==
    [][~CreateStep =>
          /\ \A id \in PollIds :
                MemExists(polls, id) /\ MemExists(polls', id) =>
                    /\ polls'[id].ID = polls[id].ID
                    /\ polls'[id].Creator = polls[id].Creator
                    /\ polls'[id].Question = polls[id].Question
                    /\ DOMAIN heap'[polls'[id].Options] = DOMAIN heap[polls[id].Options]
          /\ \A id \in PollIds :
                space[id] # NoTuple /\ space'[id] # NoTuple =>
                    LET old == parsePollTuple(space[id])
                        new == parsePollTuple(space'[id])
                    IN /\ new.ID = old.ID
                       /\ new.Creator = old.Creator
                       /\ new.Question = old.Question
                       /\ DOMAIN new.Options = DOMAIN old.Options]_vars

\* C35: a pass of AddVoteAtomic that follows a transaction conflict writes
\* the vote on top of what the store holds at that moment: the stored voters
\* plus the caller, the stored counts with the caller's choice one higher.
C35_RetryStartsFromTheStore ==
    [][\A t \in Tasks :
          /\ task[t].pc = "update" /\ task[t].i > 0
          /\ task'[t].pc = "done" /\ task'[t].res = "ok"
          /\ space[task[t].id] # NoTuple
          => LET old == parsePollTuple(space[task[t].id])
                 new == parsePollTuple(space'[task[t].id])
                 c   == task[t].choice
             IN /\ new.Voters = old.Voters \cup {task[t].user}
                /\ new.Options = [old.Options EXCEPT ![c] = @ + 1]]_vars

\* C38: at the moment AddVote returns success the poll is in the store with
\* the caller among its voters; a poll deleted since AddVote read it makes
\* AddVote return something else.
C38_SuccessMeansStored ==
    [][\A t \in Tasks :
          /\ task[t].op = "vote" /\ task[t].pc # "done"
          /\ task'[t].pc = "done" /\ task'[t].res = "ok"
          => /\ space'[task[t].id] # NoTuple
             /\ task[t].user \in parsePollTuple(space'[task[t].id]).Voters]_vars

\* C39: what the in-memory store holds for a poll, option counts included,
\* changes only in a step that runs SavePoll or DeletePoll: the ++ that AddVote
\* does on the value it got from GetPoll leaves the stored record, and what
\* another GetPoll returns, as they were.
C39_StoredRecordChangesOnlyInSave ==
    [][\A t \in Tasks :
          task[t].pc \in {"inc", "incw"} /\ task'[t] # task[t] =>
              \A id \in PollIds :
                  MemExists(polls, id) =>
                      /\ polls'[id] = polls[id]
                      /\ heap'[polls[id].Options] = heap[polls[id].Options]]_vars

\* C36: AddVoteAtomic sleeps once after each attempt that met a transaction
\* conflict, the k-th time for k times 20 ms, k = 1..5: each sleep is longer
\* than the one before by the same 20 ms.
C36_BackoffIsLinear ==
    call.fn = "AddVoteAtomic" =>
        LET sleeps == call.out.sleeps
            conflicts == {k \in 1..MaxAttempts :
                             \A j \in 1..k : call.answers[j] = "transaction conflict"}
        IN /\ Len(sleeps) = Cardinality(conflicts)
           /\ \A k \in 1..Len(sleeps) : sleeps[k] = k * 20
           /\ \A k \in 2..Len(sleeps) : sleeps[k] > sleeps[k - 1]

\* five conflicts in a row: the five sleeps, and the loop gives up
C36_Witness ==
    /\ call.fn = "AddVoteAtomic"
    /\ call.out.err = "gave up"
    /\ call.out.sleeps = <<20, 40, 60, 80, 100>>

\* C37: ConnectWithRetry makes no more than cfg.Retries attempts; it returns a
\* connection only from an attempt whose connect and ping both succeeded, and
\* otherwise an error after the last attempt; after failed attempt k it
\* sleeps k seconds, except after the last attempt.
C37_ConnectWithRetry ==
    call.fn = "ConnectWithRetry" =>
        LET out == call.out
            n   == call.retries
        IN /\ out.returned
           /\ out.attempts <= n
           /\ out.conn # "none" =>
                  /\ out.err = "nil"
                  /\ out.attempts >= 1
                  /\ call.answers[out.attempts] = "ok"
                  /\ Len(out.sleeps) = out.attempts - 1
           /\ out.conn = "none" =>
                  /\ out.err # "nil"
                  /\ out.attempts = n
                  /\ \A k \in 1..n : call.answers[k] # "ok"
                  /\ Len(out.sleeps) = IF n = 0 THEN 0 ELSE n - 1
           /\ \A k \in 1..Len(out.sleeps) : out.sleeps[k] = k

\* with three retries, two failures and then a connection that answers the
\* ping; and the sleeps taken were of 1 and 2 seconds
C37_Witness ==
    /\ call.fn = "ConnectWithRetry"
    /\ call.retries = 3
    /\ call.out.conn = "connection"
    /\ call.out.attempts = 3
    /\ call.out.sleeps = <<1, 2>>
    /\ call.out.closed = 1

====
